---- MODULE Spec2Model ----
(***************************************************************************)
(* net::HttpRequest (src/http_client.hpp): a fluent wrapper around one     *)
(* libcurl easy handle.  The model keeps the wrapper's members, the        *)
(* options the wrapper stores in the easy handle, the curl_slist header    *)
(* lists, and the exchange curl_easy_perform runs with the two callbacks.  *)
(* Byte strings are sequences of byte values; a C string handed to libcurl *)
(* ends at its first NUL byte.                                             *)
(***************************************************************************)
EXTENDS Integers, Sequences, FiniteSets, TLC

\* ------------------------------------------------------------------ bounds
\* storage slots in which an HttpRequest can be constructed (each used once)
NumObjs == 2
\* curl_slist lists that can be allocated
MaxLists == 2
\* longest header list built by add_header
MaxHeaders == 2
\* verb calls made in one behaviour
MaxVerbCalls == 2
\* callback invocations of one exchange
MaxChunks == 2

\* --------------------------------------------------------------- constants
NULL == 0
\* a char* option that was never set
NullStr == <<-1>>
CURLE_OK == "CURLE_OK"

\* "net::HttpRequest/1.0"
DefaultUserAgent ==
    <<110, 101, 116, 58, 58, 72, 116, 116, 112, 82, 101, 113, 117, 101,
      115, 116, 47, 49, 46, 48>>
\* "Content-Type: "
ContentTypePrefix ==
    <<67, 111, 110, 116, 101, 110, 116, 45, 84, 121, 112, 101, 58, 32>>
\* R"({"x":1})" of the demonstration program
JsonBody == <<123, 34, 120, 34, 58, 49, 125>>
\* "application/json"
AppJson ==
    <<97, 112, 112, 108, 105, 99, 97, 116, 105, 111, 110, 47, 106, 115,
      111, 110>>
\* "https://httpbin.org/post"
PostUrl ==
    <<104, 116, 116, 112, 115, 58, 47, 47, 104, 116, 116, 112, 98,
      105, 110, 46, 111, 114, 103, 47, 112, 111, 115, 116>>

\* ------------------------------------------------------------------ inputs
Objs == 1 .. NumObjs
Lists == 1 .. MaxLists
UrlInputs == {PostUrl, <<104, 0, 120>>}
TimeoutInputs == {0, 5000}
UserAgentInputs == {<<117>>, <<117, 0, 118>>}
HeaderInputs == {<<88>>, <<89, 0, 90>>}
BodyInputs == {<<>>, JsonBody, <<98, 0, 98>>}
ContentTypeInputs == {<<>>, AppJson, <<116, 0, 117>>}
\* what the engine can deliver to the callbacks, and how an exchange can end
HeaderLines == {<<72, 13, 10>>}
BodyChunks == {<<97>>, <<98, 0>>}
StatusCodes == {200, 404}
FailureCodes == {"CURLE_COULDNT_CONNECT", "CURLE_OPERATION_TIMEDOUT"}
\* the text the engine leaves in the error buffer ("" when it leaves none)
ErrorTexts == {"", "Connection refused"}

\* ----------------------------------------------------------------- helpers
RECURSIVE CStrFrom(_, _)
CStrFrom(s, i) ==
    IF i > Len(s) \/ s[i] = 0 THEN <<>> ELSE <<s[i]>> \o CStrFrom(s, i + 1)

\* std::string::c_str() as libcurl reads it: the bytes before the first NUL
CStr(s) == CStrFrom(s, 1)

\* the first n bytes at a buffer holding s followed by its terminating NUL
Bytes(s, n) == [i \in 1 .. n |-> IF i <= Len(s) THEN s[i] ELSE 0]

curl_easy_strerror(rc) ==
    CASE rc = "CURLE_URL_MALFORMAT" -> "URL using bad/illegal format or missing URL"
      [] rc = "CURLE_COULDNT_CONNECT" -> "Couldn't connect to server"
      [] rc = "CURLE_OPERATION_TIMEDOUT" -> "Timeout was reached"
      [] rc = "CURLE_BAD_FUNCTION_ARGUMENT" ->
            "A libcurl function was given a bad argument"
      [] OTHER -> "Unknown error"

\* HttpResponse{}
HttpResponse == [status |-> 0, body |-> <<>>, headers |-> <<>>]

\* the storage of a slot before an HttpRequest is constructed in it
NoObject ==
    [st |-> "unborn", easy_ |-> NULL, headers_ |-> NULL, url_ |-> <<>>,
     user_agent_ |-> <<>>, body_ |-> <<>>, response_ |-> HttpResponse,
     errbuf_storage_ |-> "", errbuf_ |-> NULL]

\* the storage of a slot whose object was destroyed: its bytes mean nothing
DeadObject == [NoObject EXCEPT !.st = "dead"]

\* an easy handle as curl_easy_init returns it
FreshHandle ==
    [st |-> "live", cleanups |-> 0, url |-> NullStr, timeout_ms |-> 0,
     followlocation |-> FALSE, useragent |-> NullStr, errorbuffer |-> NULL,
     writefunction |-> "default", writedata |-> NULL,
     headerfunction |-> "default", headerdata |-> NULL, httpheader |-> NULL,
     httpreq |-> "GET", customrequest |-> NullStr, postfields |-> NULL,
     postfields_dangling |-> FALSE, postfieldsize |-> -1]

NoHandle == [FreshHandle EXCEPT !.st = "unallocated"]

NoList == [st |-> "unallocated", frees |-> 0, items |-> <<>>]

\* ------------------------------------------------------------------- state
VARIABLES
    obj,        \* slot -> the HttpRequest members stored there
    curl,       \* easy handle -> its options (a handle is named by the slot
                \* whose constructor obtained it)
    slist,      \* curl_slist -> its lines
    ub,         \* a write through a dangling pointer was executed
    pc,         \* "idle", or "performing" inside curl_easy_perform
    cur,        \* the verb call in progress: [o, verb]
    out,        \* the request the engine sent for the current/last exchange
    result,     \* what the last verb call or constructor gave its caller
    dlv,        \* what the engine delivered during the current/last exchange
    cfg,        \* slot -> the arguments of the configuration calls so far
    verbCalls   \* verb calls made

vars == <<obj, curl, slist, ub, pc, cur, out, result, dlv, cfg, verbCalls>>

\* the part of the state the member functions compute on
World == [obj |-> obj, curl |-> curl, slist |-> slist, ub |-> ub]

Commit(w) ==
    /\ obj' = w.obj
    /\ curl' = w.curl
    /\ slist' = w.slist
    /\ ub' = w.ub

\* ------------------------------------------------------------ libcurl calls
\* curl_easy_setopt: a NULL handle is refused and nothing is stored; strings
\* are copied, CURLOPT_POSTFIELDS keeps the pointer
curl_easy_setopt(w, h, opt, val) ==
    IF h = NULL THEN w
    ELSE CASE opt = "CURLOPT_HTTPGET" ->
                [w EXCEPT !.curl[h].httpreq = IF val = 1 THEN "GET" ELSE @]
           [] opt = "CURLOPT_POST" ->
                [w EXCEPT !.curl[h].httpreq = IF val = 1 THEN "POST" ELSE "GET"]
           [] opt = "CURLOPT_POSTFIELDS" ->
                [w EXCEPT !.curl[h].postfields = val,
                          !.curl[h].postfields_dangling = FALSE,
                          !.curl[h].httpreq = "POST"]
           [] opt = "CURLOPT_POSTFIELDSIZE" ->
                [w EXCEPT !.curl[h].postfieldsize = val]
           [] opt = "CURLOPT_CUSTOMREQUEST" ->
                [w EXCEPT !.curl[h].customrequest = val]
           [] opt = "CURLOPT_URL" -> [w EXCEPT !.curl[h].url = val]
           [] opt = "CURLOPT_TIMEOUT_MS" -> [w EXCEPT !.curl[h].timeout_ms = val]
           [] opt = "CURLOPT_FOLLOWLOCATION" ->
                [w EXCEPT !.curl[h].followlocation = (val = 1)]
           [] opt = "CURLOPT_USERAGENT" -> [w EXCEPT !.curl[h].useragent = val]
           [] opt = "CURLOPT_ERRORBUFFER" -> [w EXCEPT !.curl[h].errorbuffer = val]
           [] opt = "CURLOPT_WRITEFUNCTION" ->
                [w EXCEPT !.curl[h].writefunction = val]
           [] opt = "CURLOPT_WRITEDATA" -> [w EXCEPT !.curl[h].writedata = val]
           [] opt = "CURLOPT_HEADERFUNCTION" ->
                [w EXCEPT !.curl[h].headerfunction = val]
           [] opt = "CURLOPT_HEADERDATA" -> [w EXCEPT !.curl[h].headerdata = val]
           [] opt = "CURLOPT_HTTPHEADER" -> [w EXCEPT !.curl[h].httpheader = val]

\* the lowest curl_slist not yet allocated
FreshList(w) ==
    CHOOSE l \in Lists :
        /\ w.slist[l].st = "unallocated"
        /\ \A k \in Lists : w.slist[k].st = "unallocated" => l <= k

\* curl_slist_append: a NULL list makes a new one, otherwise the line goes
\* to the end and the same list comes back; the result is <<world, list>>
curl_slist_append(w, l, line) ==
    IF l = NULL
    THEN LET n == FreshList(w)
         IN  <<[w EXCEPT !.slist[n] =
                    [st |-> "live", frees |-> 0, items |-> <<line>>]], n>>
    ELSE <<[w EXCEPT !.slist[l].items = Append(@, line)], l>>

\* CurlSlistDeleter: curl_slist_free_all unless the pointer is null; the
\* memory of the list is gone, the count of its releases is kept
CurlSlistDeleter(w, l) ==
    IF l = NULL THEN w
    ELSE [w EXCEPT !.slist[l] =
            [NoList EXCEPT !.st = "freed", !.frees = w.slist[l].frees + 1]]

\* CurlEasyDeleter: curl_easy_cleanup unless the pointer is null
CurlEasyDeleter(w, h) ==
    IF h = NULL THEN w
    ELSE [w EXCEPT !.curl[h] =
            [NoHandle EXCEPT !.st = "cleaned",
                             !.cleanups = w.curl[h].cleanups + 1]]

\* the buffer of body_ changed or went away: CURLOPT_POSTFIELDS pointers
\* into it dangle
BodyBufferGone(w, o) ==
    [w EXCEPT !.curl = [h \in Objs |->
        IF w.curl[h].postfields = o
        THEN [w.curl[h] EXCEPT !.postfields_dangling = TRUE]
        ELSE w.curl[h]]]

\* ------------------------------------------------- HttpRequest: construction
set_follow_redirects_w(w, o, yes) ==
    curl_easy_setopt(w, w.obj[o].easy_, "CURLOPT_FOLLOWLOCATION",
                     IF yes THEN 1 ELSE 0)

set_timeout_ms_w(w, o, ms) ==
    curl_easy_setopt(w, w.obj[o].easy_, "CURLOPT_TIMEOUT_MS", ms)

set_user_agent_w(w, o, ua) ==
    LET w1 == [w EXCEPT !.obj[o].user_agent_ = ua]
    IN  curl_easy_setopt(w1, w1.obj[o].easy_, "CURLOPT_USERAGENT",
                         CStr(w1.obj[o].user_agent_))

\* set_url that stores url_ and forgets CURLOPT_URL
set_url_w_nosetopt(w, o, url) ==
    [w EXCEPT !.obj[o].url_ = url]

set_url_w(w, o, url) ==
    LET w1 == [w EXCEPT !.obj[o].url_ = url]
    IN  curl_easy_setopt(w1, w1.obj[o].easy_, "CURLOPT_URL",
                         CStr(w1.obj[o].url_))

\* HttpRequest::HttpRequest() in slot o, curl_easy_init having returned a
\* handle: the member initialisers, then the defaults and the registrations
HttpRequest_ctor(w, o) ==
    LET h  == o
        w0 == [w EXCEPT !.curl[h] = FreshHandle,
                        !.obj[o] = [NoObject EXCEPT !.st = "live",
                                                    !.easy_ = h,
                                                    !.errbuf_ = o]]
        w1 == set_follow_redirects_w(w0, o, TRUE)
        w2 == set_timeout_ms_w(w1, o, 0)
        w3 == set_user_agent_w(w2, o, DefaultUserAgent)
        w4 == curl_easy_setopt(w3, h, "CURLOPT_ERRORBUFFER", w3.obj[o].errbuf_)
        w5 == curl_easy_setopt(w4, h, "CURLOPT_WRITEFUNCTION", "write_body_cb")
        w6 == curl_easy_setopt(w5, h, "CURLOPT_WRITEDATA", o)
        w7 == curl_easy_setopt(w6, h, "CURLOPT_HEADERFUNCTION", "write_header_cb")
    IN  curl_easy_setopt(w7, h, "CURLOPT_HEADERDATA", o)

\* what the caller has configured on a freshly constructed request
DefaultCfg ==
    [url |-> NullStr, timeout_ms |-> 0, follow |-> TRUE,
     user_agent |-> DefaultUserAgent, body |-> <<>>, headers |-> <<>>]

NoResult == [kind |-> "none", rec |-> HttpResponse, msg |-> ""]

\* body, headers, status: what the engine delivered; n: callbacks invoked;
\* rc, errtext: how curl_easy_perform ended and the text it left; performs:
\* curl_easy_perform invocations of the call; prev_*: the call before
NoDelivery ==
    [status |-> 0, body |-> <<>>, headers |-> <<>>, n |-> 0, rc |-> "none",
     errtext |-> "", performs |-> 0, prev_rc |-> "none", prev_n |-> 0,
     prev_errtext |-> ""]

\* the record of a call that starts now
StartDelivery ==
    [NoDelivery EXCEPT !.performs = 1, !.prev_rc = dlv.rc, !.prev_n = dlv.n,
                       !.prev_errtext = dlv.errtext]

NoRequest ==
    [method |-> NullStr, url |-> NullStr, timeout_ms |-> 0, follow |-> FALSE,
     user_agent |-> NullStr, headers |-> <<>>, has_body |-> FALSE,
     body |-> <<>>, body_size |-> 0]

EmptyWorld ==
    [obj |-> [o \in Objs |-> NoObject], curl |-> [h \in Objs |-> NoHandle],
     slist |-> [l \in Lists |-> NoList], ub |-> FALSE]

InitRest ==
    /\ pc = "idle"
    /\ cur = [o |-> NULL, verb |-> "none"]
    /\ out = NoRequest
    /\ result = NoResult
    /\ dlv = NoDelivery
    /\ verbCalls = 0

\* no HttpRequest constructed yet
InitNone ==
    /\ obj = EmptyWorld.obj
    /\ curl = EmptyWorld.curl
    /\ slist = EmptyWorld.slist
    /\ ub = EmptyWorld.ub
    /\ cfg = [o \in Objs |-> DefaultCfg]
    /\ InitRest

\* after `net::HttpRequest req;` in slot 1
Init ==
    /\ obj = HttpRequest_ctor(EmptyWorld, 1).obj
    /\ curl = HttpRequest_ctor(EmptyWorld, 1).curl
    /\ slist = HttpRequest_ctor(EmptyWorld, 1).slist
    /\ ub = HttpRequest_ctor(EmptyWorld, 1).ub
    /\ cfg = [o \in Objs |-> DefaultCfg]
    /\ InitRest

\* a member function can be called: the object is alive, no call is running
Callable(o) ==
    /\ pc = "idle"
    /\ ~ub
    /\ obj[o].st = "live"

\* ---------------------------------------------- HttpRequest: configuration
set_url(o, url) ==
    /\ Callable(o)
    /\ Commit(set_url_w(World, o, url))
    /\ cfg' = [cfg EXCEPT ![o].url = url]
    /\ UNCHANGED <<pc, cur, out, result, dlv, verbCalls>>

set_timeout_ms(o, ms) ==
    /\ Callable(o)
    /\ Commit(set_timeout_ms_w(World, o, ms))
    /\ cfg' = [cfg EXCEPT ![o].timeout_ms = ms]
    /\ UNCHANGED <<pc, cur, out, result, dlv, verbCalls>>

set_follow_redirects(o, yes) ==
    /\ Callable(o)
    /\ Commit(set_follow_redirects_w(World, o, yes))
    /\ cfg' = [cfg EXCEPT ![o].follow = yes]
    /\ UNCHANGED <<pc, cur, out, result, dlv, verbCalls>>

set_user_agent(o, ua) ==
    /\ Callable(o)
    /\ Commit(set_user_agent_w(World, o, ua))
    /\ cfg' = [cfg EXCEPT ![o].user_agent = ua]
    /\ UNCHANGED <<pc, cur, out, result, dlv, verbCalls>>

\* add_header that appends to nullptr instead of the released list
add_header_w_fresh(w, o, h) ==
    LET r == curl_slist_append(w, NULL, CStr(h))
    IN  [r[1] EXCEPT !.obj[o].headers_ = r[2]]

\* headers_.reset(curl_slist_append(headers_.release(), std::string(h).c_str()))
add_header_w(w, o, h) ==
    LET r == curl_slist_append(w, w.obj[o].headers_, CStr(h))
    IN  [r[1] EXCEPT !.obj[o].headers_ = r[2]]

\* the lines of the header list a request owns
HeaderLinesOf(w, o) ==
    IF w.obj[o].headers_ = NULL THEN <<>> ELSE w.slist[w.obj[o].headers_].items

\* room for one more line (and one more list when the request owns none)
HeaderRoom(o) ==
    /\ Len(HeaderLinesOf(World, o)) < MaxHeaders
    /\ obj[o].headers_ = NULL => \E l \in Lists : slist[l].st = "unallocated"

add_header(o, h) ==
    /\ Callable(o)
    /\ HeaderRoom(o)
    /\ Commit(add_header_w(World, o, h))
    /\ cfg' = [cfg EXCEPT ![o].headers = Append(@, h)]
    /\ UNCHANGED <<pc, cur, out, result, dlv, verbCalls>>

\* set_body that drops its content_type argument
set_body_w_no_content_type(w, o, body, content_type) ==
    BodyBufferGone([w EXCEPT !.obj[o].body_ = body], o)

set_body_w(w, o, body, content_type) ==
    LET w1 == BodyBufferGone([w EXCEPT !.obj[o].body_ = body], o)
    IN  IF content_type # <<>>
        THEN add_header_w(w1, o, ContentTypePrefix \o content_type)
        ELSE w1

set_body(o, body, content_type) ==
    /\ Callable(o)
    /\ content_type # <<>> => HeaderRoom(o)
    /\ Commit(set_body_w(World, o, body, content_type))
    /\ cfg' = [cfg EXCEPT
                 ![o].body = body,
                 ![o].headers = IF content_type # <<>>
                                THEN Append(@, ContentTypePrefix \o content_type)
                                ELSE @]
    /\ UNCHANGED <<pc, cur, out, result, dlv, verbCalls>>

\* ------------------------------------------------------ HttpRequest: verbs
\* reset_buffers that leaves response_ as it is
reset_buffers_keep_response(w, o) ==
    LET p == w.obj[o].errbuf_
    IN  IF p # NULL /\ w.obj[p].st = "live"
        THEN [w EXCEPT !.obj[p].errbuf_storage_ = ""]
        ELSE [w EXCEPT !.ub = TRUE]

\* reset_buffers that leaves the error buffer as it is
reset_buffers_keep_errbuf(w, o) ==
    [w EXCEPT !.obj[o].response_ = HttpResponse]

\* response_ = HttpResponse{}; errbuf_[0] = '\0' (a write through errbuf_)
reset_buffers(w, o) ==
    LET p  == w.obj[o].errbuf_
        w1 == [w EXCEPT !.obj[o].response_ = HttpResponse]
    IN  IF p # NULL /\ w1.obj[p].st = "live"
        THEN [w1 EXCEPT !.obj[p].errbuf_storage_ = ""]
        ELSE [w1 EXCEPT !.ub = TRUE]

get_w(w, o) ==
    LET w1 == reset_buffers(w, o)
    IN  curl_easy_setopt(w1, w1.obj[o].easy_, "CURLOPT_HTTPGET", 1)

\* "DELETE" and "PUT" as CURLOPT_CUSTOMREQUEST copies them
DELETE == <<68, 69, 76, 69, 84, 69>>
PUT == <<80, 85, 84>>
\* the request keywords libcurl uses for its own methods
GET == <<71, 69, 84>>
POST == <<80, 79, 83, 84>>

del_w(w, o) ==
    LET w1 == reset_buffers(w, o)
    IN  curl_easy_setopt(w1, w1.obj[o].easy_, "CURLOPT_CUSTOMREQUEST", DELETE)

post_w(w, o) ==
    LET w1 == reset_buffers(w, o)
        h  == w1.obj[o].easy_
        w2 == curl_easy_setopt(w1, h, "CURLOPT_POST", 1)
        w3 == curl_easy_setopt(w2, h, "CURLOPT_POSTFIELDS", o)
    IN  curl_easy_setopt(w3, h, "CURLOPT_POSTFIELDSIZE", Len(w3.obj[o].body_))

\* put that forgets CURLOPT_POSTFIELDSIZE
put_w_nosize(w, o) ==
    LET w1 == reset_buffers(w, o)
        h  == w1.obj[o].easy_
        w2 == curl_easy_setopt(w1, h, "CURLOPT_CUSTOMREQUEST", PUT)
    IN  curl_easy_setopt(w2, h, "CURLOPT_POSTFIELDS", o)

put_w(w, o) ==
    LET w1 == reset_buffers(w, o)
        h  == w1.obj[o].easy_
        w2 == curl_easy_setopt(w1, h, "CURLOPT_CUSTOMREQUEST", PUT)
        w3 == curl_easy_setopt(w2, h, "CURLOPT_POSTFIELDS", o)
    IN  curl_easy_setopt(w3, h, "CURLOPT_POSTFIELDSIZE", Len(w3.obj[o].body_))

\* perform(), first line: if (headers_) CURLOPT_HTTPHEADER = headers_.get()
perform_attach(w, o) ==
    IF w.obj[o].headers_ # NULL
    THEN curl_easy_setopt(w, w.obj[o].easy_, "CURLOPT_HTTPHEADER",
                          w.obj[o].headers_)
    ELSE w

\* the payloads curl_easy_perform can read for handle h: none unless the
\* method is POST; postfieldsize bytes at postfields (strlen when the size
\* was never set); any bytes when the pointer dangles
Payloads(w, h) ==
    LET c == w.curl[h]
    IN  IF c.httpreq # "POST" \/ c.postfields = NULL THEN {<<>>}
        ELSE LET bufs == IF c.postfields_dangling THEN BodyInputs
                         ELSE {w.obj[c.postfields].body_}
             IN  {Bytes(b, IF c.postfieldsize < 0 THEN Len(CStr(b))
                              ELSE c.postfieldsize) : b \in bufs}

\* the request curl_easy_perform sends from the options of handle h
WireRequest(w, h, payload) ==
    LET c == w.curl[h]
    IN  [method     |-> IF c.customrequest # NullStr THEN c.customrequest
                        ELSE IF c.httpreq = "POST" THEN POST ELSE GET,
         url        |-> c.url,
         timeout_ms |-> c.timeout_ms,
         follow     |-> c.followlocation,
         user_agent |-> c.useragent,
         headers    |-> IF c.httpheader = NULL THEN <<>>
                        ELSE w.slist[c.httpheader].items,
         has_body   |-> c.httpreq = "POST" /\ c.postfields # NULL,
         body       |-> payload,
         body_size  |-> Len(payload)]

\* perform(), rc != CURLE_OK: throw with errbuf_ or curl_easy_strerror(rc)
perform_throw(w, o, rc) ==
    LET p    == w.obj[o].errbuf_
        text == IF p # NULL THEN w.obj[p].errbuf_storage_ ELSE ""
        msg  == IF text # "" THEN text ELSE curl_easy_strerror(rc)
    IN  [kind |-> "error", rec |-> HttpResponse,
         msg |-> "curl_easy_perform: " \o msg]

\* perform(), rc == CURLE_OK: read the status, return response_ by value
perform_return(w, o, status) ==
    LET w1 == [w EXCEPT !.obj[o].response_.status = status]
    IN  <<w1, [kind |-> "ok", rec |-> w1.obj[o].response_, msg |-> ""]>>

\* execution went through a dangling pointer: nothing more is defined
Undefined(w) ==
    /\ Commit(w)
    /\ pc' = "undefined"
    /\ UNCHANGED <<cur, out, result, dlv, cfg, verbCalls>>

\* a verb after its options are set: perform() up to curl_easy_perform, which
\* refuses a NULL handle at once and otherwise starts the exchange
Perform(o, verb, w0) ==
    LET w == perform_attach(w0, o)
        h == w.obj[o].easy_
    IN  IF w.ub THEN Undefined(w)
        ELSE /\ Commit(w)
             /\ verbCalls' = verbCalls + 1
             /\ cur' = [o |-> o, verb |-> verb]
             /\ cfg' = cfg
             /\ IF h = NULL
                THEN /\ pc' = "idle"
                     /\ out' = NoRequest
                     /\ dlv' = [StartDelivery EXCEPT
                                  !.rc = "CURLE_BAD_FUNCTION_ARGUMENT"]
                     /\ result' =
                          perform_throw(w, o, "CURLE_BAD_FUNCTION_ARGUMENT")
                ELSE /\ pc' = "performing"
                     /\ \E payload \in Payloads(w, h) :
                           out' = WireRequest(w, h, payload)
                     /\ dlv' = StartDelivery
                     /\ result' = result

CanCall(o) ==
    /\ Callable(o)
    /\ verbCalls < MaxVerbCalls

get(o) ==
    /\ CanCall(o)
    /\ Perform(o, "get", get_w(World, o))

del(o) ==
    /\ CanCall(o)
    /\ Perform(o, "del", del_w(World, o))

post(o) ==
    /\ CanCall(o)
    /\ Perform(o, "post", post_w(World, o))

put(o) ==
    /\ CanCall(o)
    /\ Perform(o, "put", put_w(World, o))

\* ------------------------------------------- curl_easy_perform: the exchange
\* write_body_cb(ptr, sz, nmemb, userdata): append to userdata's response_
write_body_cb(w, self, chunk) ==
    IF self # NULL /\ w.obj[self].st = "live"
    THEN [w EXCEPT !.obj[self].response_.body = @ \o chunk]
    ELSE [w EXCEPT !.ub = TRUE]

\* write_header_cb(ptr, sz, nmemb, userdata)
write_header_cb(w, self, line) ==
    IF self # NULL /\ w.obj[self].st = "live"
    THEN [w EXCEPT !.obj[self].response_.headers = Append(@, line)]
    ELSE [w EXCEPT !.ub = TRUE]

\* the handle of the exchange in progress
CurHandle == obj[cur.o].easy_

\* the engine has a server to talk to
Exchanging ==
    /\ pc = "performing"
    /\ out.url # NullStr
    /\ out.url # <<>>

\* the engine received a header line and hands it to CURLOPT_HEADERFUNCTION
DeliverHeader(line) ==
    /\ Exchanging
    /\ dlv.n < MaxChunks
    /\ curl[CurHandle].headerfunction = "write_header_cb"
    /\ LET w == write_header_cb(World, curl[CurHandle].headerdata, line)
       IN  IF w.ub THEN Undefined(w)
           ELSE /\ Commit(w)
                /\ dlv' = [dlv EXCEPT !.headers = Append(@, line), !.n = @ + 1]
                /\ UNCHANGED <<pc, cur, out, result, cfg, verbCalls>>

\* the engine received body bytes and hands them to CURLOPT_WRITEFUNCTION
DeliverBody(chunk) ==
    /\ Exchanging
    /\ dlv.n < MaxChunks
    /\ curl[CurHandle].writefunction = "write_body_cb"
    /\ LET w == write_body_cb(World, curl[CurHandle].writedata, chunk)
       IN  IF w.ub THEN Undefined(w)
           ELSE /\ Commit(w)
                /\ dlv' = [dlv EXCEPT !.body = @ \o chunk, !.n = @ + 1]
                /\ UNCHANGED <<pc, cur, out, result, cfg, verbCalls>>

\* the engine writes its text into the CURLOPT_ERRORBUFFER buffer
WriteErrorBuffer(w, p, text) ==
    IF text = "" THEN w
    ELSE IF p # NULL /\ w.obj[p].st = "live"
         THEN [w EXCEPT !.obj[p].errbuf_storage_ = text]
         ELSE [w EXCEPT !.ub = TRUE]

\* curl_easy_perform returns rc != CURLE_OK, having left text in the error
\* buffer or not; perform() throws
PerformFails(rc, text) ==
    /\ pc = "performing"
    /\ (out.url = NullStr \/ out.url = <<>>) <=> rc = "CURLE_URL_MALFORMAT"
    /\ LET w == WriteErrorBuffer(World, curl[CurHandle].errorbuffer, text)
       IN  IF w.ub THEN Undefined(w)
           ELSE /\ Commit(w)
                /\ result' = perform_throw(w, cur.o, rc)
                /\ dlv' = [dlv EXCEPT !.rc = rc, !.errtext = text]
                /\ pc' = "idle"
                /\ UNCHANGED <<cur, out, cfg, verbCalls>>

\* curl_easy_perform returns CURLE_OK; perform() returns the record
PerformSucceeds(status) ==
    /\ Exchanging
    /\ LET r == perform_return(World, cur.o, status)
       IN  /\ Commit(r[1])
           /\ result' = r[2]
    /\ dlv' = [dlv EXCEPT !.rc = CURLE_OK, !.status = status]
    /\ pc' = "idle"
    /\ UNCHANGED <<cur, out, cfg, verbCalls>>

\* ------------------------------------------------ HttpRequest: lifetime
\* `HttpRequest r;` in slot o: curl_easy_init returns a handle, or NULL and
\* the constructor throws
HttpRequest_new(o, ok) ==
    /\ pc = "idle"
    /\ ~ub
    /\ obj[o].st = "unborn"
    /\ IF ok
       THEN /\ Commit(HttpRequest_ctor(World, o))
            /\ result' = NoResult
       ELSE /\ Commit([World EXCEPT !.obj[o] = DeadObject])
            /\ result' = [kind |-> "error", rec |-> HttpResponse,
                          msg |-> "curl_easy_init failed"]
    /\ cfg' = [cfg EXCEPT ![o] = DefaultCfg]
    /\ UNCHANGED <<pc, cur, out, dlv, verbCalls>>

\* what a member-wise move leaves in the source: the unique_ptrs are null;
\* the strings and vectors are left empty (the standard only says valid);
\* status, errbuf_storage_ and errbuf_ are copied and stay
MovedFrom(r) ==
    [r EXCEPT !.easy_ = NULL, !.headers_ = NULL, !.url_ = <<>>,
              !.user_agent_ = <<>>, !.body_ = <<>>,
              !.response_ = [@ EXCEPT !.body = <<>>, !.headers = <<>>]]

\* HttpRequest(HttpRequest&&) = default: dst is constructed from src
move_ctor_w(w, dst, src) ==
    LET w1 == [w EXCEPT !.obj[dst] = [w.obj[src] EXCEPT !.st = "live"],
                        !.obj[src] = MovedFrom(w.obj[src])]
    IN  BodyBufferGone(w1, src)

\* a move assignment that overwrites the pointers without the deleters
move_assign_w_leak(w, dst, src) ==
    IF dst = src THEN w
    ELSE [w EXCEPT !.obj[dst] = [w.obj[src] EXCEPT !.st = "live"],
                   !.obj[src] = MovedFrom(w.obj[src])]

\* HttpRequest& operator=(HttpRequest&&) = default: each unique_ptr member
\* does reset(src.release()), which hands the old pointee to the deleter
move_assign_w(w, dst, src) ==
    IF dst = src THEN w
    ELSE LET w1 == CurlEasyDeleter(w, w.obj[dst].easy_)
             w2 == CurlSlistDeleter(w1, w1.obj[dst].headers_)
             w3 == [w2 EXCEPT !.obj[dst] = [w2.obj[src] EXCEPT !.st = "live"],
                              !.obj[src] = MovedFrom(w2.obj[src])]
         IN  BodyBufferGone(BodyBufferGone(w3, src), dst)

\* ~HttpRequest(): the members go in reverse order, headers_ before easy_
dtor_w(w, o) ==
    LET w1 == CurlSlistDeleter(w, w.obj[o].headers_)
        w2 == CurlEasyDeleter(w1, w1.obj[o].easy_)
    IN  BodyBufferGone([w2 EXCEPT !.obj[o] = DeadObject], o)

\* `HttpRequest dst(std::move(src));`
move_construct(dst, src) ==
    /\ Callable(src)
    /\ obj[dst].st = "unborn"
    /\ Commit(move_ctor_w(World, dst, src))
    /\ cfg' = IF dst = src THEN cfg
              ELSE [cfg EXCEPT ![dst] = cfg[src], ![src] = DefaultCfg]
    /\ UNCHANGED <<pc, cur, out, result, dlv, verbCalls>>

\* `dst = std::move(src);`
move_assign(dst, src) ==
    /\ Callable(src)
    /\ Callable(dst)
    /\ Commit(move_assign_w(World, dst, src))
    /\ cfg' = IF dst = src THEN cfg
              ELSE [cfg EXCEPT ![dst] = cfg[src], ![src] = DefaultCfg]
    /\ UNCHANGED <<pc, cur, out, result, dlv, verbCalls>>

\* the object in slot o goes out of scope
destroy(o) ==
    /\ Callable(o)
    /\ Commit(dtor_w(World, o))
    /\ cfg' = [cfg EXCEPT ![o] = DefaultCfg]
    /\ UNCHANGED <<pc, cur, out, result, dlv, verbCalls>>

\* --------------------------------------------------------- specifications
Verb ==
    \E o \in Objs :
        \/ get(o)
        \/ del(o)
        \/ post(o)
        \/ put(o)

Engine ==
    \/ \E line \in HeaderLines : DeliverHeader(line)
    \/ \E chunk \in BodyChunks : DeliverBody(chunk)
    \/ \E rc \in FailureCodes \cup {"CURLE_URL_MALFORMAT"}, text \in ErrorTexts :
          PerformFails(rc, text)
    \/ \E status \in StatusCodes : PerformSucceeds(status)

Next ==
    \/ \E o \in Objs : set_url(o, PostUrl)
    \/ \E o \in Objs, b \in BodyInputs : set_body(o, b, <<>>)
    \/ Verb
    \/ Engine

\* one HttpRequest reused for verb calls, its URL and body set in between
Spec == Init /\ [][Next]_vars

NextConfig ==
    \/ \E o \in Objs, url \in UrlInputs : set_url(o, url)
    \/ \E o \in Objs, ms \in TimeoutInputs : set_timeout_ms(o, ms)
    \/ \E o \in Objs, yes \in BOOLEAN : set_follow_redirects(o, yes)
    \/ \E o \in Objs, ua \in UserAgentInputs : set_user_agent(o, ua)
    \/ \E o \in Objs, h \in HeaderInputs : add_header(o, h)
    \/ \E o \in Objs, b \in BodyInputs, ct \in ContentTypeInputs :
          set_body(o, b, ct)
    \/ verbCalls = 0 /\ Verb

\* one HttpRequest: any configuration calls, then one verb call
SpecConfig == Init /\ [][NextConfig]_vars

NextOwn ==
    \/ \E o \in Objs, ok \in BOOLEAN : HttpRequest_new(o, ok)
    \/ \E o \in Objs : add_header(o, <<88>>)
    \/ \E dst \in Objs, src \in Objs : move_construct(dst, src)
    \/ \E dst \in Objs, src \in Objs : move_assign(dst, src)
    \/ \E o \in Objs : destroy(o)

\* construction, add_header, moves and destruction of HttpRequest objects
SpecOwn == InitNone /\ [][NextOwn]_vars

NextMove ==
    \/ \E o \in Objs : HttpRequest_new(o, TRUE)
    \/ \E dst \in Objs, src \in Objs : move_construct(dst, src)
    \/ \E dst \in Objs, src \in Objs : move_assign(dst, src)
    \/ \E o \in Objs : destroy(o)
    \/ \E o \in Objs : set_url(o, PostUrl)
    \/ verbCalls = 0 /\ Verb
    \/ Engine

\* construction, moves and destruction, with one verb call on some object
SpecMove == InitNone /\ [][NextMove]_vars

\* -------------------------------------------------------------- properties
\* the header lines the request in slot o owns
Headers(o) == HeaderLinesOf(World, o)

\* what the engine delivered during the current/last exchange, as a record
Delivered == [status |-> dlv.status, body |-> dlv.body, headers |-> dlv.headers]

\* C1: while an exchange runs, response_ holds exactly what the engine has
\* delivered during this call (nothing at its start, status 0), and a
\* record returned by a verb call is exactly what was delivered during it.
C1_NoLeakAcrossCalls ==
    /\ pc = "performing" =>
          obj[cur.o].response_ = [Delivered EXCEPT !.status = 0]
    /\ (pc = "idle" /\ result.kind = "ok") => result.rec = Delivered

\* a second call returned a record with body and headers, the call before
\* having failed after callbacks had run
C1_Witness ==
    /\ pc = "idle"
    /\ result.kind = "ok"
    /\ verbCalls = 2
    /\ dlv.body # <<>>
    /\ dlv.headers # <<>>
    /\ dlv.prev_rc = "CURLE_OPERATION_TIMEDOUT"
    /\ dlv.prev_n > 0

\* C2: the exchange started by get() or del() carries no outgoing payload:
\* no body byte is sent.
C2_GetDelSendNoBody ==
    (pc = "performing" /\ cur.verb \in {"get", "del"}) =>
        (out.body = <<>> /\ out.body_size = 0)

\* the request keyword each verb is meant to send
MethodOf(verb) ==
    CASE verb = "get" -> GET
      [] verb = "del" -> DELETE
      [] verb = "post" -> POST
      [] verb = "put" -> PUT

\* C3: the request of each verb call carries that verb's own method.
C3_VerbSelectsMethod ==
    pc = "performing" => out.method = MethodOf(cur.verb)

\* C4: the exchange started by post() or put() carries a payload that is
\* the most recently set body, byte for byte, with that body's length.
C4_PostPutSendBody ==
    (pc = "performing" /\ cur.verb \in {"post", "put"}) =>
        /\ out.has_body
        /\ out.body = cfg[cur.o].body
        /\ out.body_size = Len(cfg[cur.o].body)

\* put() as a second call sends a body that holds a NUL byte
C4_Witness ==
    /\ pc = "performing"
    /\ cur.verb = "put"
    /\ verbCalls = 2
    /\ out.body = <<98, 0, 98>>
    /\ out.body_size = 3

\* the text a failed call is meant to carry
Diagnostic ==
    IF dlv.errtext # "" THEN dlv.errtext ELSE curl_easy_strerror(dlv.rc)

\* C7: a call whose exchange the engine ended with a failure raised an error
\* (no record), after one curl_easy_perform, carrying the text the engine
\* left during this call or else the generic description; a record is
\* returned only when the engine reported success.
C7_FailureRaises ==
    /\ (pc = "idle" /\ dlv.rc \notin {"none", CURLE_OK}) =>
          /\ result.kind = "error"
          /\ result.rec = HttpResponse
          /\ result.msg = "curl_easy_perform: " \o Diagnostic
          /\ dlv.performs = 1
    /\ (pc = "idle" /\ result.kind = "ok") => dlv.rc = CURLE_OK

\* a call failed with no text from the engine, the call before having
\* failed with a text in the buffer, and after callbacks had run
C7_Witness ==
    /\ pc = "idle"
    /\ result.kind = "error"
    /\ dlv.errtext = ""
    /\ dlv.n > 0
    /\ dlv.prev_errtext = "Connection refused"
    /\ result.msg = "curl_easy_perform: Timeout was reached"

\* the elementwise image of a sequence of strings
CStrs(lines) == [i \in 1 .. Len(lines) |-> CStr(lines[i])]

\* C5, as stated: the request sent reflects the arguments last given to the
\* setters (the defaults where none was called), and its header list is the
\* sequence of add_header arguments.
C5_LastWriteWins_AsStated ==
    pc = "performing" =>
        /\ out.url = cfg[cur.o].url
        /\ out.timeout_ms = cfg[cur.o].timeout_ms
        /\ out.follow = cfg[cur.o].follow
        /\ out.user_agent = cfg[cur.o].user_agent
        /\ cur.verb \in {"post", "put"} => out.body = cfg[cur.o].body
        /\ out.headers = cfg[cur.o].headers

\* C5, amended: the same, where the URL, the user-agent and each header line
\* reach the request cut at their first NUL byte (the body is sent whole).
C5_LastWriteWins ==
    pc = "performing" =>
        /\ out.url = CStr(cfg[cur.o].url)
        /\ out.timeout_ms = cfg[cur.o].timeout_ms
        /\ out.follow = cfg[cur.o].follow
        /\ out.user_agent = CStr(cfg[cur.o].user_agent)
        /\ cur.verb \in {"post", "put"} => out.body = cfg[cur.o].body
        /\ out.headers = CStrs(cfg[cur.o].headers)

\* post() after a URL and a body with NUL bytes, a timeout, and the same
\* header added twice; the user-agent never set
C5_Witness ==
    /\ pc = "performing"
    /\ cur.verb = "post"
    /\ cfg[1].url = <<104, 0, 120>>
    /\ cfg[1].timeout_ms = 5000
    /\ cfg[1].user_agent = DefaultUserAgent
    /\ cfg[1].body = <<98, 0, 98>>
    /\ cfg[1].headers = <<(<<89, 0, 90>>), (<<89, 0, 90>>)>>
    /\ out.headers = <<(<<89>>), (<<89>>)>>

\* C6, as stated: a set_body call with a non-empty content type appends the
\* line "Content-Type: <value>" after the lines already there, which stay;
\* with an empty content type the list stays as it is.
C6_ContentTypeAppended_AsStated ==
    [][\A o \in Objs, b \in BodyInputs, ct \in ContentTypeInputs :
          set_body(o, b, ct) =>
              Headers(o)' = IF ct # <<>>
                            THEN Append(Headers(o), ContentTypePrefix \o ct)
                            ELSE Headers(o)]_vars

\* C6, amended: the appended line is "Content-Type: " followed by the value
\* up to its first NUL byte.
C6_ContentTypeAppended ==
    [][\A o \in Objs, b \in BodyInputs, ct \in ContentTypeInputs :
          set_body(o, b, ct) =>
              Headers(o)' = IF ct # <<>>
                            THEN Append(Headers(o),
                                        ContentTypePrefix \o CStr(ct))
                            ELSE Headers(o)]_vars

\* set_body with application/json was called after add_header("X")
C6_Witness ==
    /\ cfg[1].headers = <<(<<88>>), ContentTypePrefix \o AppJson>>
    /\ Headers(1) = <<(<<88>>), ContentTypePrefix \o AppJson>>

\* the scenario: a fresh request, set_url, set_body({"x":1},
\* application/json), post()
C9_Scenario ==
    /\ pc = "performing"
    /\ cur.verb = "post"
    /\ verbCalls = 1
    /\ cfg[cur.o] = [DefaultCfg EXCEPT
                       !.url = PostUrl, !.body = JsonBody,
                       !.headers = <<ContentTypePrefix \o AppJson>>]

HasLine(lines, line) == \E i \in 1 .. Len(lines) : lines[i] = line

\* C9, as stated: in the scenario the request has the header line
\* "Content-Type: application/json" and a body of exactly 8 bytes.
C9_PostJson_AsStated ==
    C9_Scenario =>
        /\ HasLine(out.headers, ContentTypePrefix \o AppJson)
        /\ out.has_body
        /\ out.body_size = 8

\* C9, amended: the body is {"x":1}, which is exactly 7 bytes.
C9_PostJson ==
    C9_Scenario =>
        /\ HasLine(out.headers, ContentTypePrefix \o AppJson)
        /\ out.has_body
        /\ out.body = JsonBody
        /\ out.body_size = 7

C9_Witness ==
    /\ C9_Scenario
    /\ out.url = PostUrl

\* the live requests that own easy handle h / list l
EasyOwners(h) == {o \in Objs : obj[o].st = "live" /\ obj[o].easy_ = h}
ListOwners(l) == {o \in Objs : obj[o].st = "live" /\ obj[o].headers_ = l}

\* every handle and list is owned by exactly one live request and not yet
\* released, or owned by none and released exactly once
OwnedOrReleasedOnce ==
    /\ \A h \in Objs :
          CASE curl[h].st = "unallocated" ->
                 EasyOwners(h) = {} /\ curl[h].cleanups = 0
            [] curl[h].st = "live" ->
                 Cardinality(EasyOwners(h)) = 1 /\ curl[h].cleanups = 0
            [] curl[h].st = "cleaned" ->
                 EasyOwners(h) = {} /\ curl[h].cleanups = 1
    /\ \A l \in Lists :
          CASE slist[l].st = "unallocated" ->
                 ListOwners(l) = {} /\ slist[l].frees = 0
            [] slist[l].st = "live" ->
                 Cardinality(ListOwners(l)) = 1 /\ slist[l].frees = 0
            [] slist[l].st = "freed" ->
                 ListOwners(l) = {} /\ slist[l].frees = 1

\* a move from src to another object leaves src owning nothing and gives dst
\* what src owned
MoveTransfers ==
    \A dst \in Objs, src \in Objs :
        (dst # src /\ (move_construct(dst, src) \/ move_assign(dst, src))) =>
            /\ obj'[src].easy_ = NULL
            /\ obj'[src].headers_ = NULL
            /\ obj'[dst].easy_ = obj[src].easy_
            /\ obj'[dst].headers_ = obj[src].headers_

\* a handle or list is released only in a step that destroys its owner or
\* move-assigns to its owner
ReleasedWithOwner ==
    /\ \A h \in Objs :
          curl'[h].cleanups # curl[h].cleanups =>
              \E o \in EasyOwners(h) :
                  \/ destroy(o)
                  \/ \E src \in Objs \ {o} : move_assign(o, src)
    /\ \A l \in Lists :
          slist'[l].frees # slist[l].frees =>
              \E o \in ListOwners(l) :
                  \/ destroy(o)
                  \/ \E src \in Objs \ {o} : move_assign(o, src)

C10_SinksBoundToOwner ==
    /\ \A o \in Objs :
          (obj[o].st = "live" /\ obj[o].easy_ # NULL) =>
              /\ curl[obj[o].easy_].writedata = o
              /\ curl[obj[o].easy_].headerdata = o
              /\ curl[obj[o].easy_].errorbuffer = o
              /\ obj[o].errbuf_ = o
    /\ (pc = "idle" /\ result.kind = "ok") =>
          (result.rec.body = dlv.body /\ result.rec.headers = dlv.headers)
    /\ ~ub

====
